---- MODULE Spec2Model ----
(***************************************************************************)
(* MindGPT backend (api/index.js): the Express middleware chain (CORS,     *)
(* rate limiter) and the two route handlers /generate-suggestions and      *)
(* /generate-post, with the upstream generative model as a fallible,       *)
(* nondeterministic collaborator; and the page script (script.js): the     *)
(* generation form, the regenerate button, the history and localStorage.   *)
(*                                                                         *)
(* JavaScript strings are sequences of one-character strings, so that      *)
(* split, startsWith, replace, trim, join and includes are computed        *)
(* character by character as the runtime computes them.                    *)
(*                                                                         *)
(* The specifications, over one set of variables:                          *)
(*   Spec            the server serving one request at a time: CORS, the   *)
(*                   limiter, the handlers, the upstream call, the clock;  *)
(*   ConcurrentSpec  the server with two requests in flight, interleaved   *)
(*                   at every await;                                       *)
(*   HandlerSpec     one call of a route handler on an input and an        *)
(*                   upstream outcome drawn from wide bounded sets (the    *)
(*                   handlers as functions of their inputs);               *)
(*   MixSpec         one client whose requests to both endpoints, accepted *)
(*                   and refused by the handlers, share the limiter;       *)
(*   ClientSpec      the page running the copy of the script that has the  *)
(*                   regenerate button, with every event of the user;      *)
(*   StorageSpec     the page in each copy of the script, its theme toggle *)
(*                   and its reload included, on one topic;                *)
(*   FailureSpec     the page in each copy of the script, with every way   *)
(*                   a generation is refused at the guard or fails.        *)
(***************************************************************************)
EXTENDS Integers, Sequences, FiniteSets, TLC

VARIABLES
    clock,      \* Date.now(), in milliseconds
    store,      \* the limiter's counters: client key -> [totalHits, resetTime]
    hist,       \* history: per client, the five-minute window it is in (see Arrived)
    req,        \* the inbound requests being served: slot -> request record
    call,       \* HandlerSpec: one handler call, [endpoint, body, up, done, out]
    mix,        \* MixSpec: history, the kinds of request a client's window has admitted
    page        \* the page running script.js (see LoadedPage)

vars == << clock, store, hist, req, call, mix, page >>

(***************************************************************************)
(* Bounds of the model.                                                    *)
(***************************************************************************)
MaxTextPieces == 5      \* an upstream text is at most this many pieces
MaxMsgPieces == 3       \* an upstream error message is at most this many pieces
MaxQueryLen == 4        \* a suggestion query is at most this many characters
MaxSuggPieces == 3      \* an upstream suggestion text is at most this many pieces
MaxTicks == 2           \* Spec: the clock advances at most this many half windows
MaxOver == 1            \* hits a client makes beyond max within one window
MaxOther == 1           \* hits the second client makes within one window
MaxInFlight == 2        \* requests of the page in flight at once
MaxHistory == 2         \* entries of the history and requests in flight when a form is submitted

(***************************************************************************)
(* String literals of the source.                                          *)
(***************************************************************************)
TooManyRequestsMessage ==
    << "T", "o", "o", " ", "m", "a", "n", "y", " ", "r", "e", "q", "u", "e", "s", "t", "s",
       " ", "f", "r", "o", "m", " ", "t", "h", "i", "s", " ", "I", "P", ",", " ", "p", "l",
       "e", "a", "s", "e", " ", "t", "r", "y", " ", "a", "g", "a", "i", "n", " ", "a", "f",
       "t", "e", "r", " ", "5", " ", "m", "i", "n", "u", "t", "e", "s", "." >>

TopicRequiredMessage ==
    << "T", "o", "p", "i", "c", " ", "i", "s", " ", "r", "e", "q", "u", "i", "r", "e", "d" >>

QuotaMessage ==
    << "T", "h", "e", " ", "d", "a", "i", "l", "y", " ", "A", "P", "I", " ", "q", "u", "o",
       "t", "a", " ", "h", "a", "s", " ", "b", "e", "e", "n", " ", "r", "e", "a", "c", "h",
       "e", "d", ".", " ", "P", "l", "e", "a", "s", "e", " ", "t", "r", "y", " ", "a", "g",
       "a", "i", "n", " ", "t", "o", "m", "o", "r", "r", "o", "w", "." >>

GenericMessage ==
    << "A", "n", " ", "u", "n", "e", "x", "p", "e", "c", "t", "e", "d", " ", "s", "e", "r",
       "v", "e", "r", " ", "e", "r", "r", "o", "r", " ", "o", "c", "c", "u", "r", "r", "e",
       "d", ".", " ", "P", "l", "e", "a", "s", "e", " ", "c", "h", "e", "c", "k", " ", "t",
       "h", "e", " ", "s", "e", "r", "v", "e", "r", " ", "l", "o", "g", "s", "." >>

EmptyResponseMessage ==
    << "T", "h", "e", " ", "A", "I", " ", "m", "o", "d", "e", "l", " ", "r", "e", "t", "u",
       "r", "n", "e", "d", " ", "a", "n", " ", "e", "m", "p", "t", "y", " ", "o", "r", " ",
       "i", "n", "v", "a", "l", "i", "d", " ", "r", "e", "s", "p", "o", "n", "s", "e", "." >>

BlockedPrefix ==
    << "R", "e", "q", "u", "e", "s", "t", " ", "w", "a", "s", " ", "b", "l", "o", "c", "k",
       "e", "d", " ", "b", "y", " ", "t", "h", "e", " ", "A", "I", "'", "s", " ", "s", "a",
       "f", "e", "t", "y", " ", "f", "i", "l", "t", "e", "r", "s", ".", " ", "R", "e", "a",
       "s", "o", "n", ":", " " >>

BlockedSuffix ==
    << ".", " ", "P", "l", "e", "a", "s", "e", " ", "t", "r", "y", " ", "a", " ", "d", "i",
       "f", "f", "e", "r", "e", "n", "t", " ", "t", "o", "p", "i", "c", "." >>

NoMessageText ==
    << "N", "o", " ", "s", "p", "e", "c", "i", "f", "i", "c", " ", "m", "e", "s", "s", "a",
       "g", "e", " ", "a", "v", "a", "i", "l", "a", "b", "l", "e", "." >>

Marker ==
    << "S", "E", "A", "R", "C", "H", "_", "Q", "U", "E", "R", "Y", ":" >>

Code429 == << "4", "2", "9" >>

QuotaWord == << "q", "u", "o", "t", "a" >>

(***************************************************************************)
(* JavaScript values that reach the handlers: undefined, a string, or a    *)
(* truthy non-string (a number such as 7).                                 *)
(***************************************************************************)
Undefined == [type |-> "undefined", str |-> << >>]

Str(s) == [type |-> "string", str |-> s]

Seven == [type |-> "number", str |-> << >>]

\* JavaScript truthiness: undefined and "" are falsy, the number 7 and
\* every non-empty string are truthy.
Truthy(v) ==
    \/ v.type = "number"
    \/ v.type = "string" /\ v.str # << >>

(***************************************************************************)
(* String.prototype operations.                                            *)
(***************************************************************************)
Whitespace == {" ", "\t", "\n", "\r"}

\* the positions at which pat occurs in s
Matches(s, pat) ==
    {i \in 1..(Len(s) - Len(pat) + 1) : SubSeq(s, i, i + Len(pat) - 1) = pat}

SetMin(S) == CHOOSE x \in S : \A y \in S : x <= y

\* s.includes(pat)
Includes(s, pat) == Matches(s, pat) # {}

\* s.startsWith(pat)
StartsWith(s, pat) ==
    /\ Len(s) >= Len(pat)
    /\ SubSeq(s, 1, Len(pat)) = pat

\* s.replace(pat, rep) with a string pattern: the first occurrence only
Replace(s, pat, rep) ==
    IF Matches(s, pat) = {}
    THEN s
    ELSE LET i == SetMin(Matches(s, pat))
         IN  SubSeq(s, 1, i - 1) \o rep \o SubSeq(s, i + Len(pat), Len(s))

RECURSIVE TrimStart(_)
TrimStart(s) ==
    IF s # << >> /\ Head(s) \in Whitespace THEN TrimStart(Tail(s)) ELSE s

RECURSIVE TrimEnd(_)
TrimEnd(s) ==
    IF s # << >> /\ s[Len(s)] \in Whitespace
    THEN TrimEnd(SubSeq(s, 1, Len(s) - 1))
    ELSE s

\* s.trim()
Trim(s) == TrimEnd(TrimStart(s))

\* s.split('\n'): always at least one element, "" gives [""]
RECURSIVE Split(_)
Split(s) ==
    IF Matches(s, << "\n" >>) = {}
    THEN << s >>
    ELSE LET i == SetMin(Matches(s, << "\n" >>))
         IN  << SubSeq(s, 1, i - 1) >> \o Split(SubSeq(s, i + 1, Len(s)))

\* lines.join('\n')
RECURSIVE Join(_)
Join(lines) ==
    IF lines = << >> THEN << >>
    ELSE IF Len(lines) = 1 THEN lines[1]
    ELSE lines[1] \o << "\n" >> \o Join(Tail(lines))

(***************************************************************************)
(* HTTP replies.  status 0 with payload "none" is a request that is never  *)
(* answered.                                                               *)
(***************************************************************************)
Reply(status, payload, error, responseText, searchQueries, suggestions) ==
    [status |-> status, payload |-> payload, error |-> error,
     responseText |-> responseText, searchQueries |-> searchQueries,
     suggestions |-> suggestions]

\* res.status(status).json({ error })
ErrorReply(status, error) == Reply(status, "error", error, << >>, << >>, << >>)

\* res.json({ suggestions })
SuggestionsReply(suggestions) == Reply(200, "suggestions", << >>, << >>, << >>, suggestions)

\* res.json({ responseText, searchQueries })
PostReply(responseText, searchQueries) ==
    Reply(200, "post", << >>, responseText, searchQueries, << >>)

\* no response is ever written
NoReply == Reply(0, "none", << >>, << >>, << >>, << >>)

\* Express's default error handler: status 500 and an HTML page
DefaultErrorReply == Reply(500, "html", << >>, << >>, << >>, << >>)

\* What a handler call leaves behind: the reply, whether the upstream model
\* was invoked, the prompt built (NoPrompt if none), the detail written by
\* console.error (<< >> if none) and whether an exception escaped the handler.
NoPrompt == [built |-> FALSE, persona |-> "none", topic |-> Undefined]

Outcome(reply, upstreamCalled, prompt, logged, escaped) ==
    [reply |-> reply, upstreamCalled |-> upstreamCalled, prompt |-> prompt,
     logged |-> logged, escaped |-> escaped]

(***************************************************************************)
(* The upstream model.  One outcome of                                     *)
(*     result = await model.generateContent(prompt)                        *)
(*     response = await result.response;  response.text()                  *)
(* kind "rejects": a promise rejects with an Error carrying message;       *)
(* kind "resolves": response is present or not, has a text member or not,  *)
(* carries promptFeedback.blockReason or not, and text() returns text or   *)
(* throws an Error carrying message.  quota records the cause the provider *)
(* had for an error: its quota / rate limit was exhausted.                 *)
(***************************************************************************)
Rejects(message, quota) ==
    [kind |-> "rejects", message |-> message, quota |-> quota, response |-> FALSE,
     hasText |-> FALSE, blockReason |-> Undefined, textThrows |-> FALSE, text |-> << >>]

Resolves(response, hasText, blockReason, textThrows, message, text) ==
    [kind |-> "resolves", message |-> message, quota |-> FALSE, response |-> response,
     hasText |-> hasText, blockReason |-> blockReason, textThrows |-> textThrows,
     text |-> text]

\* the upstream returned a response whose text() yields the given text
Text(t) == Resolves(TRUE, TRUE, Undefined, FALSE, << >>, t)

(***************************************************************************)
(* POST /generate-suggestions                                              *)
(***************************************************************************)
SuggestionPrompt(query) == [built |-> TRUE, persona |-> "suggestions", topic |-> query]

\* s => s.trim() !== ''
NotBlank(s) == Trim(s) # << >>

\* a guard on the untrimmed length
TooShortUntrimmed(query) ==
    \/ ~Truthy(query)
    \/ Len(query.str) < 3

\* the guard of the handler: !query || query.trim().length < 3
\* (evaluated only for an undefined or string query)
TooShort(query) ==
    \/ ~Truthy(query)
    \/ Len(Trim(query.str)) < 3

\* The try block: any rejection, a missing response, a missing text member
\* or a throwing text() lands in the catch, which answers an empty list.
SuggestionsFinish(body, up) ==
    IF \/ up.kind = "rejects"
       \/ ~up.response
       \/ ~up.hasText
       \/ up.textThrows
    THEN Outcome(SuggestionsReply(<< >>), TRUE, SuggestionPrompt(body.query),
                 up.message, FALSE)
    ELSE Outcome(SuggestionsReply(SelectSeq(Split(up.text), NotBlank)), TRUE,
                 SuggestionPrompt(body.query), << >>, FALSE)

\* Where the synchronous part of the handler ends: "throws" (query.trim is
\* not a function, outside the try), "empty" (the guard) or "upstream".
SuggestionsEntry(body) ==
    IF Truthy(body.query) /\ body.query.type # "string" THEN "throws"
    ELSE IF TooShort(body.query) THEN "empty"
    ELSE "upstream"

\* The exception escapes an async handler: the promise rejection is left
\* unhandled and no reply is written, or the framework answers 500.
EscapedReplies == {NoReply, DefaultErrorReply}

SuggestionsEmpty == Outcome(SuggestionsReply(<< >>), FALSE, NoPrompt, << >>, FALSE)

SuggestionsThrows(reply) == Outcome(reply, FALSE, NoPrompt, << >>, TRUE)

(***************************************************************************)
(* POST /generate-post                                                     *)
(***************************************************************************)
\* getPromptForStyle: the persona chosen by the switch and the topic embedded
getPromptForStyle(topic, style) ==
    [built |-> TRUE,
     persona |-> CASE style = "Professional" -> "professional assistant"
                   [] style = "Casual" -> "friendly and casual AI companion"
                   [] style = "Simple" -> "expert at simplification"
                   [] style = "Creative" -> "creative and witty AI"
                   [] OTHER -> "helpful and knowledgeable AI assistant",
     topic |-> topic]

\* a test for an undefined topic only
TopicUndefined(body) == body.topic.type = "undefined"

\* if (!topic)
TopicMissing(body) == ~Truthy(body.topic)

PostBadRequest == Outcome(ErrorReply(400, TopicRequiredMessage), FALSE, NoPrompt, << >>, FALSE)

\* if (!response || !response.text)
InvalidResponse(up) == ~up.response \/ ~up.hasText

\* response?.promptFeedback?.blockReason
BlockReasonOf(up) == IF up.response THEN up.blockReason ELSE Undefined

\* one message whatever the cause
SameMessage(up) == EmptyResponseMessage

\* the message of the Error thrown by the validation
ValidationMessage(up) ==
    IF Truthy(BlockReasonOf(up))
    THEN BlockedPrefix \o BlockReasonOf(up).str \o BlockedSuffix
    ELSE EmptyResponseMessage

\* Whether the try block throws, and the message of the Error thrown.
Throws(up) ==
    \/ up.kind = "rejects"
    \/ InvalidResponse(up)
    \/ up.textThrows

ThrownMessage(up) ==
    IF up.kind = "rejects" THEN up.message
    ELSE IF InvalidResponse(up) THEN ValidationMessage(up)
    ELSE up.message

\* error.message && (error.message.includes('429') || error.message.includes('quota'))
LooksLikeQuota(message) ==
    /\ message # << >>
    /\ Includes(message, Code429) \/ Includes(message, QuotaWord)

\* a catch block that sends the message of the error
LeakingReply(message) ==
    IF LooksLikeQuota(message)
    THEN ErrorReply(429, QuotaMessage)
    ELSE ErrorReply(500, message)

\* the reply of the catch block
CatchReply(message) ==
    IF LooksLikeQuota(message)
    THEN ErrorReply(429, QuotaMessage)
    ELSE ErrorReply(500, GenericMessage)

\* console.error('Error Details:', error.message || 'No specific message available.')
ErrorDetails(message) == IF message # << >> THEN message ELSE NoMessageText

\* the marker anywhere in the line
HasMarker(line) == Includes(line, Marker)

\* line.startsWith('SEARCH_QUERY:')
IsMarkerLine(line) == StartsWith(line, Marker)

\* line.replace('SEARCH_QUERY:', '').trim()
QueryOf(line) == Trim(Replace(line, Marker, << >>))

\* lines.forEach(...): the two lists after the lines from index i on
RECURSIVE ForEachLine(_, _, _)
ForEachLine(lines, i, acc) ==
    IF i > Len(lines) THEN acc
    ELSE IF IsMarkerLine(lines[i])
    THEN ForEachLine(lines, i + 1,
             [acc EXCEPT !.searchQueries = Append(@, QueryOf(lines[i]))])
    ELSE ForEachLine(lines, i + 1,
             [acc EXCEPT !.responseTextLines = Append(@, lines[i])])

ParseResponse(fullResponseText) ==
    LET parts == ForEachLine(Split(fullResponseText), 1,
                     [responseTextLines |-> << >>, searchQueries |-> << >>])
    IN  PostReply(Trim(Join(parts.responseTextLines)), parts.searchQueries)

\* the try / catch of the handler, once the upstream call has settled
PostFinish(body, up) ==
    IF Throws(up)
    THEN Outcome(CatchReply(ThrownMessage(up)), TRUE,
                 getPromptForStyle(body.topic, body.style),
                 ErrorDetails(ThrownMessage(up)), FALSE)
    ELSE Outcome(ParseResponse(up.text), TRUE,
                 getPromptForStyle(body.topic, body.style), << >>, FALSE)

\* the whole handler of /generate-post as a function of the request body and
\* of what the upstream model does
GeneratePost(body, up) ==
    IF TopicMissing(body) THEN PostBadRequest ELSE PostFinish(body, up)

\* the whole handler of /generate-suggestions; escapedReply is what the
\* caller sees when the handler throws
GenerateSuggestions(body, up, escapedReply) ==
    CASE SuggestionsEntry(body) = "throws" -> SuggestionsThrows(escapedReply)
      [] SuggestionsEntry(body) = "empty" -> SuggestionsEmpty
      [] OTHER -> SuggestionsFinish(body, up)

(***************************************************************************)
(* CORS (corsOptions.origin) and the rate limiter (apiLimiter).            *)
(***************************************************************************)
allowedOrigins ==
    {"https://mindgpt-ai.vercel.app", "http://localhost:5500", "http://127.0.0.1:5500"}

\* the Origin header of a request; "" is a request without one
NoOrigin == ""

\* cors without an origin option: every origin is let in
CorsAllowsAny(origin) == TRUE

\* if (!origin || allowedOrigins.includes(origin)) callback(null, true)
CorsAllows(origin) == origin = NoOrigin \/ origin \in allowedOrigins

\* the limiter on /generate-post only
LimitedPostOnly(endpoint) == endpoint = "/generate-post"

\* the routes registered with apiLimiter, one instance for both
Limited(endpoint) == endpoint \in {"/generate-suggestions", "/generate-post"}

\* a window of five seconds
FiveSeconds == 5 * 1000

windowMs == 5 * 60 * 1000

\* a limit of sixteen
Sixteen == 15 + 1

max == 15

\* One window per client key: a counter and the time the window ends.  A hit
\* arriving when the window has ended starts a new window.
NoWindow == [totalHits |-> 0, resetTime |-> 0]

WindowEnded(st, key, now) == st[key].resetTime <= now

Increment(st, key, now) ==
    LET cur == IF WindowEnded(st, key, now)
               THEN [totalHits |-> 0, resetTime |-> now + windowMs]
               ELSE st[key]
    IN  [st EXCEPT ![key] = [cur EXCEPT !.totalHits = @ + 1]]

\* the limiter rejects a request whose hit number is over max
OverLimit(totalHits) == totalHits > max

LimiterRejects == Outcome(ErrorReply(429, TooManyRequestsMessage), FALSE, NoPrompt, << >>, FALSE)

\* cors passes the Error to next(): Express's default error handler answers
CorsRejects == Outcome(DefaultErrorReply, FALSE, NoPrompt, << >>, FALSE)

Pending == Outcome(NoReply, FALSE, NoPrompt, << >>, FALSE)

(***************************************************************************)
(* History of the limiter's windows, kept beside the limiter and never     *)
(* read by it: for each client the time its window opened (-1: none yet),  *)
(* the requests that reached the limiter in it, those it let through, and  *)
(* whether more than 15 requests reached the limiter in the window before. *)
(* A window lasts five minutes from the request that opens it.             *)
(***************************************************************************)
FiveMinutes == 5 * 60 * 1000

NoHistory == [opened |-> -1, seen |-> 0, passed |-> 0, before |-> FALSE]

WindowOver(h, now) == h.opened < 0 \/ now >= h.opened + FiveMinutes

\* a request of the client reaches the limiter at time now
Arrived(h, now) ==
    IF WindowOver(h, now)
    THEN [opened |-> now, seen |-> 1, passed |-> 0, before |-> h.seen > 15]
    ELSE [h EXCEPT !.seen = @ + 1]

\* the limiter lets a request of the client through
Passed(h) == [h EXCEPT !.passed = @ + 1]

(***************************************************************************)
(* Inputs.                                                                 *)
(***************************************************************************)
\* all concatenations of at most n pieces of P
RECURSIVE Concats(_, _)
Concats(P, n) ==
    IF n = 0 THEN {<< >>}
    ELSE LET shorter == Concats(P, n - 1)
         IN  shorter \cup {p \o q : p \in P, q \in shorter}

Body(topic, style, query) == [topic |-> topic, style |-> style, query |-> query]

Styles == {"Professional", "Casual", "Simple", "Creative", "Default", "Poetic"}

BlockReasons == {Str(<< "S", "A", "F", "E", "T", "Y" >>), Str(<< "O", "T", "H", "E", "R" >>)}

\* HandlerSpec: upstream texts, error messages, topics and queries
TextPieces == {Marker, << " " >>, << "a" >>, << "\n" >>}

Texts == Concats(TextPieces, MaxTextPieces)

MsgPieces == {<< "4" >>, << "2", "9" >>, << "q", "u", "o" >>, << "t", "a" >>, << "x" >>}

ErrorMessages == Concats(MsgPieces, MaxMsgPieces)

\* An error of the provider's quota carries the status code 429 in its message.
Rejections ==
    {Rejects(m, q) : m \in ErrorMessages, q \in BOOLEAN} \
        {Rejects(m, TRUE) : m \in {n \in ErrorMessages : ~Includes(n, Code429)}}

InvalidResponses ==
    {Resolves(FALSE, FALSE, Undefined, FALSE, << >>, << >>)}
        \cup {Resolves(TRUE, FALSE, b, FALSE, << >>, << >>) : b \in BlockReasons \cup {Undefined}}

ThrowingTexts ==
    {Resolves(TRUE, TRUE, b, TRUE, m, << >>) : b \in BlockReasons, m \in ErrorMessages}

PostOutcomes ==
    Rejections \cup InvalidResponses \cup ThrowingTexts \cup {Text(t) : t \in Texts}

Topics == {Undefined, Seven, Str(<< >>), Str(<< " " >>), Str(<< "a" >>)}

PostBodies == {Body(t, st, Undefined) : t \in Topics, st \in Styles}

Queries ==
    {Undefined, Seven}
        \cup {Str(q) : q \in Concats({<< " " >>, << "a" >>}, MaxQueryLen)}

SuggestionBodies == {Body(Undefined, "undefined", q) : q \in Queries}

SuggestionOutcomes ==
    {Rejects(<< "x" >>, FALSE), Resolves(FALSE, FALSE, Undefined, FALSE, << >>, << >>),
     Resolves(TRUE, TRUE, Undefined, TRUE, << "x" >>, << >>)}
        \cup {Text(t) : t \in Concats({<< " " >>, << "a" >>, << "\n" >>}, MaxSuggPieces)}

\* Spec and ConcurrentSpec: clients, connections, requests, upstream outcomes
Clients == {"ipA", "ipB"}

Slots == {1, 2}

Origins == {NoOrigin, "https://mindgpt-ai.vercel.app", "https://evil.example"}

Endpoints == {"/generate-post", "/generate-suggestions"}

SampleText == << "a", "\n" >> \o Marker \o << " ", "a" >>

Safety == Str(<< "S", "A", "F", "E", "T", "Y" >>)

ServedBodies(endpoint) ==
    IF endpoint = "/generate-post"
    THEN {Body(t, "Simple", Undefined) : t \in {Undefined, Seven, Str(<< >>), Str(<< "a" >>)}}
    ELSE {Body(Undefined, "undefined", q) :
              q \in {Undefined, Seven, Str(<< "a", "b" >>), Str(<< "a", "b", "c" >>)}}

ServedOutcomes(endpoint) ==
    IF endpoint = "/generate-post"
    THEN {Text(SampleText), Text(<< >>), Rejects(Code429, TRUE), Rejects(<< "x" >>, FALSE),
          Resolves(TRUE, FALSE, Safety, FALSE, << >>, << >>)}
    ELSE {Text(<< "a", "\n", "a" >>), Rejects(<< "x" >>, FALSE)}

ConcurrentBodies(endpoint) ==
    IF endpoint = "/generate-post"
    THEN {Body(t, "Simple", Undefined) : t \in {Undefined, Str(<< "a" >>)}}
    ELSE {Body(Undefined, "undefined", Str(<< "a", "b", "c" >>))}

ConcurrentOutcomes(endpoint) ==
    IF endpoint = "/generate-post"
    THEN {Text(SampleText)}
    ELSE {Rejects(<< "x" >>, FALSE)}

\* the hits a client makes within one window, at most
Traffic(c) == IF c = "ipA" THEN max + MaxOver ELSE MaxOther

(***************************************************************************)
(* The page (script.js).  The file holds three copies of the page's        *)
(* DOMContentLoaded listener: lines 1-235, lines 236-532 (the one with     *)
(* handleGeneration, the regenerate button and lastSubmission) and lines   *)
(* 533-747.  A page runs one of them; page.script says which.              *)
(***************************************************************************)
\* `Your prompt: ${topic}`
PromptPrefix ==
    << "Y", "o", "u", "r", " ", "p", "r", "o", "m", "p", "t", ":", " " >>

(***************************************************************************)
(* JSON.stringify and JSON.parse, on the values the page stores: numbers,  *)
(* strings, arrays and objects.                                            *)
(***************************************************************************)
\* the decimal digits of a natural number
RECURSIVE Digits(_)
Digits(n) ==
    LET digit == << "0", "1", "2", "3", "4", "5", "6", "7", "8", "9" >>[(n % 10) + 1]
    IN  IF n < 10 THEN << digit >> ELSE Digits(n \div 10) \o << digit >>

\* a string between quotes, with ", \ and the line break escaped
Quote(s) ==
    LET RECURSIVE Escape(_)
        Escape(t) ==
            IF t = << >> THEN << >>
            ELSE (CASE Head(t) = "\"" -> << "\\", "\"" >>
                    [] Head(t) = "\\" -> << "\\", "\\" >>
                    [] Head(t) = "\n" -> << "\\", "n" >>
                    [] OTHER -> << Head(t) >>) \o Escape(Tail(t))
    IN  << "\"" >> \o Escape(s) \o << "\"" >>

\* the texts joined with commas, between the brackets open and close
RECURSIVE Bracket(_, _, _)
Bracket(open, texts, close) ==
    IF Len(texts) = 0 THEN << open, close >>
    ELSE IF Len(texts) = 1 THEN << open >> \o texts[1] \o << close >>
    ELSE << open >> \o texts[1] \o << "," >>
             \o Tail(Bracket(open, Tail(texts), close))

\* JSON.stringify(history): an array of objects with the keys id, topic,
\* tone, responseText and searchQueries, in the order they were written
Stringify(entries) ==
    LET Member(key, text) == Quote(key) \o << ":" >> \o text
        Entry(e) ==
            Bracket("{",
                << Member(<< "i", "d" >>, Digits(e.id)),
                   Member(<< "t", "o", "p", "i", "c" >>, Quote(e.topic)),
                   Member(<< "t", "o", "n", "e" >>, Quote(e.tone)),
                   Member(<< "r", "e", "s", "p", "o", "n", "s", "e", "T", "e", "x", "t" >>,
                          Quote(e.responseText)),
                   Member(<< "s", "e", "a", "r", "c", "h", "Q", "u", "e", "r", "i", "e", "s" >>,
                          Bracket("[", [i \in 1..Len(e.searchQueries) |->
                                           Quote(e.searchQueries[i])], "]")) >>,
                "}")
    IN  Bracket("[", [i \in 1..Len(entries) |-> Entry(entries[i])], "]")

\* JSON.parse(text), for a text without white space between its tokens: the
\* value as a tree of [t, v] with t one of "num", "str", "arr", "obj"; the
\* members of an object are pairs << key, value >> in the order of the text
ParseJson(text) ==
    LET IsDigit(ch) == ch \in {"0", "1", "2", "3", "4", "5", "6", "7", "8", "9"}
        DigitOf(ch) == CHOOSE d \in 0..9 : Digits(d) = << ch >>
        RECURSIVE String(_, _), Number(_, _), Value(_), Elements(_, _), Members(_, _)
        String(i, acc) ==
            IF text[i] = "\"" THEN [v |-> [t |-> "str", v |-> acc], next |-> i + 1]
            ELSE IF text[i] = "\\"
                 THEN String(i + 2, Append(acc, IF text[i + 1] = "n" THEN "\n"
                                                ELSE text[i + 1]))
                 ELSE String(i + 1, Append(acc, text[i]))
        Number(i, acc) ==
            IF i <= Len(text) /\ IsDigit(text[i])
            THEN Number(i + 1, 10 * acc + DigitOf(text[i]))
            ELSE [v |-> [t |-> "num", v |-> acc], next |-> i]
        Value(i) ==
            CASE text[i] = "\"" -> String(i + 1, << >>)
              [] text[i] = "[" ->
                   IF text[i + 1] = "]"
                   THEN [v |-> [t |-> "arr", v |-> << >>], next |-> i + 2]
                   ELSE Elements(i + 1, << >>)
              [] text[i] = "{" ->
                   IF text[i + 1] = "}"
                   THEN [v |-> [t |-> "obj", v |-> << >>], next |-> i + 2]
                   ELSE Members(i + 1, << >>)
              [] OTHER -> Number(i, 0)
        Elements(i, acc) ==
            LET element == Value(i)
            IN  IF text[element.next] = ","
                THEN Elements(element.next + 1, Append(acc, element.v))
                ELSE [v |-> [t |-> "arr", v |-> Append(acc, element.v)],
                      next |-> element.next + 1]
        Members(i, acc) ==
            LET key == String(i + 1, << >>)
                value == Value(key.next + 1)
                member == << key.v.v, value.v >>
            IN  IF text[value.next] = ","
                THEN Members(value.next + 1, Append(acc, member))
                ELSE [v |-> [t |-> "obj", v |-> Append(acc, member)],
                      next |-> value.next + 1]
    IN  Value(1).v

\* history = JSON.parse(savedHistory): the array of entries, each a record of
\* the members the page reads (entry.id, entry.topic, entry.tone,
\* entry.responseText, entry.searchQueries)
ParseHistory(text) ==
    LET array == ParseJson(text).v
        Get(object, key) ==
            LET at == {k \in 1..Len(object.v) : object.v[k][1] = key}
            IN  object.v[CHOOSE k \in at : \A j \in at : j <= k][2].v
        strings(value) == [k \in 1..Len(value) |-> value[k].v]
    IN  [n \in 1..Len(array) |->
            [id |-> Get(array[n], << "i", "d" >>),
             topic |-> Get(array[n], << "t", "o", "p", "i", "c" >>),
             tone |-> Get(array[n], << "t", "o", "n", "e" >>),
             responseText |->
                 Get(array[n], << "r", "e", "s", "p", "o", "n", "s", "e", "T", "e", "x", "t" >>),
             searchQueries |->
                 strings(Get(array[n],
                     << "s", "e", "a", "r", "c", "h", "Q", "u", "e", "r", "i", "e", "s" >>))]]

(***************************************************************************)
(* The state of a page.                                                    *)
(***************************************************************************)
\* no trimming: only the empty topic is refused
Empty(topic) == topic = << >>

\* if (!topic.trim())
Blank(topic) == Trim(topic) = << >>

\* String.prototype.toLowerCase, on the letters of the model
ToLowerCase(s) ==
    [i \in 1..Len(s) |-> CASE s[i] = "A" -> "a" [] s[i] = "B" -> "b" [] OTHER -> s[i]]

\* renderHistory: the items listed, those whose topic contains the search
\* term (copy 3 has no search box and lists every entry)
renderHistory(script, history, searchTerm) ==
    IF script = 3 THEN history
    ELSE LET Listed(entry) == Includes(ToLowerCase(entry.topic), ToLowerCase(searchTerm))
         IN  SelectSeq(history, Listed)

\* new entries at the bottom
Push(entry, history) == history \o << entry >>

\* history.unshift(entry)
Unshift(entry, history) == << entry >> \o history

\* localStorage: the values under 'ai-assistant-history' and
\* 'ai-assistant-theme', Undefined for a key never set
Storage(history, theme) == [history |-> history, theme |-> theme]

\* a request of the page to /generate-post, and whether it regenerates
Request(topic, tone, regen) == [topic |-> topic, tone |-> tone, regen |-> regen]

NoRequest == Request(<< >>, << >>, FALSE)

\* how a fetch ends: the promise rejects (transport failure), or it fulfils
\* with a response carrying the reply's status whose body is JSON or is not
Rejected == [settled |-> "rejected", reply |-> NoReply, json |-> FALSE]

Fulfilled(reply) ==
    [settled |-> "fulfilled", reply |-> reply, json |-> reply.payload \in {"post", "error"}]

\* history: the last event of the page ("load", "submit", "regenerate",
\* "complete", "clear", or "other" for an edit, a selection, a search or a
\* theme toggle), whether its handler stopped at the guard, the request it
\* sent or completed, and the response completing it
Last(event, blocked, request, response) ==
    [event |-> event, blocked |-> blocked, request |-> request, response |-> response]

\* The page once DOMContentLoaded has run on the given localStorage: the
\* form and the result area as the document has them, the history read by
\* loadHistory.  log is history: the entries of the successful original
\* submissions since the last clear, oldest first.
LoadedPage(script, storage) ==
    LET history == IF Truthy(storage.history)
                   THEN ParseHistory(storage.history.str)
                   ELSE << >>
    IN  [script |-> script,
         topicValue |-> << >>,
         toneValue |-> << "S", "i", "m", "p", "l", "e" >>,
         searchTerm |-> << >>,
         theme |-> storage.theme,
         history |-> history,
         items |-> renderHistory(script, history, << >>),
         storage |-> storage,
         lastSubmission |-> [topic |-> << >>, tone |-> << >>],
         disabled |-> FALSE,
         loading |-> FALSE,
         resultShown |-> FALSE,
         copyShown |-> FALSE,
         regenerateShown |-> FALSE,
         linksShown |-> FALSE,
         promptText |-> << >>,
         output |-> << >>,
         links |-> << >>,
         inflight |-> << >>,
         log |-> [n \in 1..Len(history) |-> history[Len(history) + 1 - n]],
         last |-> Last("load", FALSE, NoRequest, Rejected)]

\* the copies of the script, what the user types, the responses
Scripts == {1, 2, 3}

\* what the user makes of the form: a topic and a tone
Forms ==
    {<< << " " >>, << "S", "i", "m", "p", "l", "e" >> >>,
     << << "a" >>, << "S", "i", "m", "p", "l", "e" >> >>,
     << << "B" >>, << "C", "a", "s", "u", "a", "l" >> >>}

\* values of Date.now()
Timestamps == {12}

SearchTerms == {<< >>, << "b" >>}

\* a result, the limiter's 429, a JSON error without an error member, the
\* framework's HTML error page, an HTML page with status 200, and no
\* response at all
Responses ==
    {Fulfilled(PostReply(<< "a", "\"", "\n", "\\" >>, << << "q" >> >>)),
     Fulfilled(ErrorReply(429, TooManyRequestsMessage)),
     Fulfilled(ErrorReply(500, << >>)),
     Fulfilled(DefaultErrorReply),
     Fulfilled(Reply(200, "html", << >>, << >>, << >>, << >>)),
     Rejected}

\* localStorage when the page is first loaded: empty, or with the history
\* an earlier visit saved
Storages ==
    {Storage(Undefined, Undefined),
     Storage(Str(Stringify(<< [id |-> 0, topic |-> << "B" >>,
                              tone |-> << "C", "a", "s", "u", "a", "l" >>,
                              responseText |-> << "b" >>,
                              searchQueries |-> << >>] >>)),
             Str(<< "d", "a", "r", "k" >>))}

\* no page is loaded
NoPage == LoadedPage(0, Storage(Undefined, Undefined))

(***************************************************************************)
(* State.                                                                  *)
(***************************************************************************)
NoBody == Body(Undefined, "undefined", Undefined)

\* no upstream call has settled
NoUp ==
    [kind |-> "none", message |-> << >>, quota |-> FALSE, response |-> FALSE,
     hasText |-> FALSE, blockReason |-> Undefined, textThrows |-> FALSE, text |-> << >>]

IdleReq ==
    [pc |-> "idle", client |-> "none", endpoint |-> "none", origin |-> NoOrigin,
     body |-> NoBody, totalHits |-> 0, nth |-> 0, up |-> NoUp, out |-> Pending]

\* what a request comes to if the limiter admits it: a /generate-post that
\* reaches the upstream or is answered 400, a /generate-suggestions that
\* reaches the upstream or is answered at the guard
Kinds == {"post", "post400", "suggestions", "short"}

\* no request of any kind has arrived in the window of any client
NoMix == [c \in Clients |-> [kind \in Kinds |-> 0]]

NoCall ==
    [endpoint |-> "none", body |-> NoBody, up |-> NoUp, done |-> FALSE, out |-> Pending]

ServerInit ==
    /\ clock = 0
    /\ store = [c \in Clients |-> NoWindow]
    /\ hist = [c \in Clients |-> NoHistory]
    /\ req = [s \in Slots |-> IdleReq]

\* no browser page is part of the run
Unloaded ==
    /\ mix = NoMix
    /\ page = NoPage

Init ==
    /\ ServerInit
    /\ call = NoCall
    /\ Unloaded

(***************************************************************************)
(* The server.                                                             *)
(***************************************************************************)
\* A request of client c arrives on connection s, carrying the body b: cors
\* runs; for an allowed origin express.json and the logger run and the limiter
\* counts the hit.  A request of a foreign origin ends at cors.
Receive(s, c, e, o, b) ==
    /\ req[s].pc = "idle"
    /\ IF CorsAllows(o)
       THEN /\ store' = IF Limited(e) THEN Increment(store, c, clock) ELSE store
            /\ hist' = [hist EXCEPT ![c] = Arrived(@, clock)]
            /\ req' = [req EXCEPT ![s] =
                   [pc |-> "limiter", client |-> c, endpoint |-> e, origin |-> o,
                    body |-> b,
                    totalHits |-> IF Limited(e) THEN store'[c].totalHits ELSE 0,
                    nth |-> hist'[c].seen, up |-> NoUp, out |-> Pending]]
       ELSE /\ req' = [req EXCEPT ![s] =
                   [pc |-> "done", client |-> c, endpoint |-> e, origin |-> o,
                    body |-> b, totalHits |-> 0, nth |-> 0, up |-> NoUp,
                    out |-> CorsRejects]]
            /\ UNCHANGED << store, hist >>
    /\ UNCHANGED << clock, call, page >>

\* The limiter decides on the hit number it was given; an admitted request
\* runs its route handler up to the upstream call.
Decide(s) ==
    /\ req[s].pc = "limiter"
    /\ IF OverLimit(req[s].totalHits)
       THEN /\ req' = [req EXCEPT ![s].pc = "done", ![s].out = LimiterRejects]
            /\ UNCHANGED hist
       ELSE /\ hist' = [hist EXCEPT ![req[s].client] = Passed(@)]
            /\ IF req[s].endpoint = "/generate-post"
               THEN IF TopicMissing(req[s].body)
                    THEN req' = [req EXCEPT ![s].pc = "done", ![s].out = PostBadRequest]
                    ELSE req' = [req EXCEPT ![s].pc = "upstream",
                                    ![s].out = Outcome(NoReply, TRUE,
                                        getPromptForStyle(req[s].body.topic, req[s].body.style),
                                        << >>, FALSE)]
               ELSE CASE SuggestionsEntry(req[s].body) = "throws" ->
                           \E r \in EscapedReplies :
                               req' = [req EXCEPT ![s].pc = "done",
                                           ![s].out = SuggestionsThrows(r)]
                      [] SuggestionsEntry(req[s].body) = "empty" ->
                           req' = [req EXCEPT ![s].pc = "done", ![s].out = SuggestionsEmpty]
                      [] OTHER ->
                           req' = [req EXCEPT ![s].pc = "upstream",
                                       ![s].out = Outcome(NoReply, TRUE,
                                           SuggestionPrompt(req[s].body.query), << >>, FALSE)]
    /\ UNCHANGED << clock, store, call, mix, page >>

\* The upstream call settles as up and the handler runs to its reply.
UpstreamReturn(s, up) ==
    /\ req[s].pc = "upstream"
    /\ req' = [req EXCEPT ![s].pc = "done",
                   ![s].up = up,
                   ![s].out = IF req[s].endpoint = "/generate-post"
                              THEN PostFinish(req[s].body, up)
                              ELSE SuggestionsFinish(req[s].body, up)]
    /\ UNCHANGED << clock, store, hist, call, mix, page >>

\* The connection of an answered (or abandoned) request goes away.
Close(s) ==
    /\ req[s].pc = "done"
    /\ req' = [req EXCEPT ![s] = IdleReq]
    /\ UNCHANGED << clock, store, hist, call, mix, page >>

\* Time passes, by d milliseconds and up to the time limit.  The limiter's
\* awaits settle within one turn of the event loop, so no request is between
\* its hit and its decision when it does.
Tick(d, limit) ==
    /\ clock + d <= limit
    /\ \A s \in Slots : req[s].pc # "limiter"
    /\ clock' = clock + d
    /\ UNCHANGED << store, hist, req, call, mix, page >>

\* client c has made fewer than n hits in its window
Within(c, n) == WindowEnded(store, c, clock) \/ store[c].totalHits < n

(***************************************************************************)
(* Spec: one request at a time, on connection 1.                           *)
(***************************************************************************)
HalfWindow == FiveMinutes \div 2

Arrive ==
    \E c \in Clients, e \in Endpoints, o \in Origins :
        \E b \in ServedBodies(e) :
            /\ Within(c, Traffic(c))
            /\ Receive(1, c, e, o, b)
            /\ UNCHANGED mix

Settle == \E up \in ServedOutcomes(req[1].endpoint) : UpstreamReturn(1, up)

Next ==
    \/ Arrive
    \/ Decide(1)
    \/ Settle
    \/ Close(1)
    \/ Tick(HalfWindow, MaxTicks * HalfWindow)

Spec == Init /\ [][Next]_vars

(***************************************************************************)
(* ConcurrentSpec: two requests in flight; the clock advances once, by a   *)
(* whole window.                                                           *)
(***************************************************************************)
ConcurrentArrive(s) ==
    \E c \in Clients, e \in Endpoints :
        \E b \in ConcurrentBodies(e) :
            /\ Within(c, Traffic(c))
            /\ Receive(s, c, e, NoOrigin, b)
            /\ UNCHANGED mix

ConcurrentSettle(s) ==
    \E up \in ConcurrentOutcomes(req[s].endpoint) : UpstreamReturn(s, up)

ConcurrentNext ==
    \/ \E s \in Slots : ConcurrentArrive(s)
    \/ \E s \in Slots : Decide(s)
    \/ \E s \in Slots : ConcurrentSettle(s)
    \/ \E s \in Slots : Close(s)
    \/ Tick(FiveMinutes, FiveMinutes)

ConcurrentSpec == Init /\ [][ConcurrentNext]_vars

(***************************************************************************)
(* HandlerSpec: one call of a handler.                                     *)
(***************************************************************************)
\* every upstream outcome on one body, and every body on two outcomes
Calls ==
    {[endpoint |-> "/generate-post", body |-> Body(Str(<< "a" >>), "Simple", Undefined),
      up |-> u, done |-> FALSE, out |-> Pending] : u \in PostOutcomes}
    \cup
    {[endpoint |-> "/generate-post", body |-> b, up |-> u, done |-> FALSE, out |-> Pending] :
        b \in PostBodies, u \in {Text(SampleText), Rejects(<< "x" >>, FALSE)}}
    \cup
    {[endpoint |-> "/generate-suggestions", body |-> b, up |-> u, done |-> FALSE,
      out |-> Pending] : b \in SuggestionBodies, u \in SuggestionOutcomes}

HandlerInit ==
    /\ ServerInit
    /\ call \in Calls
    /\ Unloaded

CallPost ==
    /\ ~call.done
    /\ call.endpoint = "/generate-post"
    /\ call' = [call EXCEPT !.done = TRUE, !.out = GeneratePost(call.body, call.up)]
    /\ UNCHANGED << clock, store, hist, req, mix, page >>

CallSuggestions ==
    /\ ~call.done
    /\ call.endpoint = "/generate-suggestions"
    /\ \E r \in EscapedReplies :
         call' = [call EXCEPT !.done = TRUE,
                      !.out = GenerateSuggestions(call.body, call.up, r)]
    /\ UNCHANGED << clock, store, hist, req, mix, page >>

HandlerNext == CallPost \/ CallSuggestions

HandlerSpec == HandlerInit /\ [][HandlerNext]_vars

(***************************************************************************)
(* MixSpec: one request at a time, of either endpoint, valid or not, with  *)
(* the kinds of request of each client's window counted as they arrive.    *)
(***************************************************************************)
MixBodies(endpoint) ==
    IF endpoint = "/generate-post"
    THEN {Body(t, "Simple", Undefined) : t \in {Undefined, Str(<< "a" >>)}}
    ELSE {Body(Undefined, "undefined", q) :
              q \in {Str(<< "a", "b" >>), Str(<< "a", "b", "c" >>)}}

MixOutcomes(endpoint) ==
    IF endpoint = "/generate-post"
    THEN {Text(SampleText)}
    ELSE {Text(<< "a", "\n", "a" >>)}

\* the kind of a request, by the validation its handler would make
KindOf(endpoint, body) ==
    IF endpoint = "/generate-post"
    THEN IF body.topic.type = "undefined" THEN "post400" ELSE "post"
    ELSE IF Len(body.query.str) < 3 THEN "short" ELSE "suggestions"

MixArrive ==
    \E c \in Clients, e \in Endpoints :
        \E b \in MixBodies(e) :
            /\ Within(c, Traffic(c))
            /\ c # "ipA" => KindOf(e, b) = "post"
            /\ Receive(1, c, e, NoOrigin, b)
            /\ mix' = [mix EXCEPT ![c] =
                   IF hist'[c].seen = 1
                   THEN [kind \in Kinds |-> IF kind = KindOf(e, b) THEN 1 ELSE 0]
                   ELSE [@ EXCEPT ![KindOf(e, b)] = @ + 1]]

MixSettle == \E up \in MixOutcomes(req[1].endpoint) : UpstreamReturn(1, up)

MixNext ==
    \/ MixArrive
    \/ Decide(1)
    \/ MixSettle
    \/ Close(1)
    \/ Tick(FiveMinutes, FiveMinutes)

MixSpec == Init /\ [][MixNext]_vars

(***************************************************************************)
(* ClientSpec: a page running one copy of script.js, its user and the      *)
(* responses to its requests.                                              *)
(***************************************************************************)
\* the try block without the test of response.ok
TryFetchUnchecked(script, response) ==
    LET
        FailedToFetch ==
            << "F", "a", "i", "l", "e", "d", " ", "t", "o", " ", "f", "e", "t", "c", "h" >>
        UnexpectedToken ==
            << "U", "n", "e", "x", "p", "e", "c", "t", "e", "d", " ", "t", "o", "k", "e", "n", " ",
               "'", "<", "'" >>
    IN
    IF response.settled = "rejected" THEN [succeeded |-> FALSE, message |-> FailedToFetch]
    ELSE IF ~response.json THEN [succeeded |-> FALSE, message |-> UnexpectedToken]
    ELSE [succeeded |-> TRUE, message |-> << >>]

\* The try block from the fetch to the parsed data: it succeeds, or throws an
\* Error with a message.  handleGeneration (copy 2) tests response.ok and
\* then reads the body; the submit handlers of copies 1 and 3 read the body
\* and then test response.ok.
TryFetch(script, response) ==
    LET reply == response.reply
        ok == reply.status \in 200..299
        \* the message of the TypeError of a fetch that fails at the transport
        \* level, and of the SyntaxError of response.json() on a body that is
        \* not JSON
        FailedToFetch ==
            << "F", "a", "i", "l", "e", "d", " ", "t", "o", " ", "f", "e", "t", "c", "h" >>
        UnexpectedToken ==
            << "U", "n", "e", "x", "p", "e", "c", "t", "e", "d", " ", "t", "o", "k", "e", "n", " ",
               "'", "<", "'" >>
        \* data.error || 'An unknown server error occurred.'
        UnknownServerError ==
            << "A", "n", " ", "u", "n", "k", "n", "o", "w", "n", " ", "s", "e", "r", "v", "e", "r",
               " ", "e", "r", "r", "o", "r", " ", "o", "c", "c", "u", "r", "r", "e", "d", "." >>
        \* errorData.error || `Server error: ${response.status}`
        ServerErrorPrefix ==
            << "S", "e", "r", "v", "e", "r", " ", "e", "r", "r", "o", "r", ":", " " >>
        \* `Server responded with status ${response.status}. The response was
        \* not valid JSON. Check Vercel logs.`
        NotJsonPrefix ==
            << "S", "e", "r", "v", "e", "r", " ", "r", "e", "s", "p", "o", "n", "d", "e", "d", " ",
               "w", "i", "t", "h", " ", "s", "t", "a", "t", "u", "s", " " >>
        NotJsonSuffix ==
            << ".", " ", "T", "h", "e", " ", "r", "e", "s", "p", "o", "n", "s", "e", " ", "w", "a",
               "s", " ", "n", "o", "t", " ", "v", "a", "l", "i", "d", " ", "J", "S", "O", "N", ".",
               " ", "C", "h", "e", "c", "k", " ", "V", "e", "r", "c", "e", "l", " ", "l", "o", "g",
               "s", "." >>
    IN  IF response.settled = "rejected"
        THEN [succeeded |-> FALSE, message |-> FailedToFetch]
        ELSE IF script = 2
        THEN IF ~ok
             THEN [succeeded |-> FALSE,
                   message |-> IF response.json
                               THEN IF reply.error # << >> THEN reply.error
                                    ELSE ServerErrorPrefix \o Digits(reply.status)
                               ELSE NotJsonPrefix \o Digits(reply.status) \o NotJsonSuffix]
             ELSE IF ~response.json
                  THEN [succeeded |-> FALSE, message |-> UnexpectedToken]
                  ELSE [succeeded |-> TRUE, message |-> << >>]
        ELSE IF ~response.json
             THEN [succeeded |-> FALSE, message |-> UnexpectedToken]
             ELSE IF ~ok
                  THEN [succeeded |-> FALSE,
                        message |-> IF reply.error # << >> THEN reply.error
                                    ELSE UnknownServerError]
                  ELSE [succeeded |-> TRUE, message |-> << >>]

\* the catch block: postOutput.textContent
FailureText(script, message) ==
    LET
        FailurePrefix ==
            << "F", "a", "i", "l", "e", "d", " ", "t", "o", " ", "g", "e", "n", "e", "r", "a", "t",
               "e", " ", "r", "e", "s", "p", "o", "n", "s", "e", ".", " ", "E", "r", "r", "o", "r",
               ":", " " >>
        FailureHint ==
            << ".", " ", "P", "l", "e", "a", "s", "e", " ", "m", "a", "k", "e", " ", "s", "u", "r",
               "e", " ", "t", "h", "e", " ", "s", "e", "r", "v", "e", "r", " ", "i", "s", " ", "r",
               "u", "n", "n", "i", "n", "g", " ", "a", "n", "d", " ", "c", "h", "e", "c", "k", " ",
               "t", "h", "e", " ", "c", "o", "n", "s", "o", "l", "e", " ", "f", "o", "r", " ", "m",
               "o", "r", "e", " ", "d", "e", "t", "a", "i", "l", "s", "." >>
    IN
    IF script = 2 THEN FailurePrefix \o message
    ELSE FailurePrefix \o message \o FailureHint

\* every success is added to the history
AddsAlways(request) == TRUE

\* if (!isRegeneration) addToHistory(historyEntry)
AddsToHistory(request) == ~request.regen

\* nothing is written
keepStorage(storage, history) == storage

\* saveHistory: localStorage.setItem('ai-assistant-history', JSON.stringify(history))
saveHistory(storage, history) == [storage EXCEPT !.history = Str(Stringify(history))]

\* The user edits the form: a topic and a tone.
EditForm(form) ==
    /\ form # << page.topicValue, page.toneValue >>
    /\ page' = [page EXCEPT !.topicValue = form[1], !.toneValue = form[2],
                    !.last = Last("other", FALSE, NoRequest, Rejected)]
    /\ UNCHANGED << clock, store, hist, req, call, mix >>

\* handleGeneration(isRegeneration) up to its await (in copies 1 and 3 the
\* submit handler, which has no regeneration): the guard, then the loading
\* state and the fetch.
handleGeneration(isRegeneration) ==
    LET topic == IF isRegeneration THEN page.lastSubmission.topic ELSE page.topicValue
        tone == IF isRegeneration THEN page.lastSubmission.tone ELSE page.toneValue
        event == IF isRegeneration THEN "regenerate" ELSE "submit"
        request == Request(topic, tone, isRegeneration)
    IN  /\ IF Blank(topic)
           THEN page' = [page EXCEPT !.last = Last(event, TRUE, NoRequest, Rejected)]
           ELSE /\ Len(page.inflight) < MaxInFlight
                /\ page' = [page EXCEPT
                       !.loading = TRUE,
                       !.disabled = TRUE,
                       !.resultShown = FALSE,
                       !.copyShown = FALSE,
                       !.regenerateShown = IF page.script = 2 THEN FALSE ELSE @,
                       !.linksShown = FALSE,
                       !.inflight = Append(@, request),
                       !.last = Last(event, FALSE, request, Rejected)]
        /\ UNCHANGED << clock, store, hist, req, call, mix >>

\* The form is submitted: a click on the generate button, or Enter in the
\* textarea, which clicks it; a disabled button takes no click.
Submit ==
    /\ ~page.disabled
    /\ Len(page.history) + Len(page.inflight) < MaxHistory
    /\ handleGeneration(FALSE)

\* A click on the regenerate button (copy 2), when it is displayed.
Regenerate ==
    /\ page.script = 2
    /\ page.regenerateShown
    /\ handleGeneration(TRUE)

\* The fetch of the i-th request in flight settles, Date.now() being now, and
\* its handler runs to its end: the result or the failure text, the history, the finally block.
Complete(i, response, now) ==
    LET request == IF i \in 1..Len(page.inflight) THEN page.inflight[i] ELSE NoRequest
        try == TryFetch(page.script, response)
        data == response.reply
        historyEntry == [id |-> now, topic |-> request.topic, tone |-> request.tone,
                         responseText |-> data.responseText,
                         searchQueries |-> data.searchQueries]
        added == try.succeeded /\ AddsToHistory(request)
        history == IF added THEN Unshift(historyEntry, page.history) ELSE page.history
    IN  /\ i \in 1..Len(page.inflight)
        /\ page' = [page EXCEPT
               !.promptText = IF try.succeeded THEN PromptPrefix \o request.topic ELSE @,
               !.output = IF try.succeeded THEN data.responseText
                          ELSE FailureText(page.script, try.message),
               !.resultShown = TRUE,
               !.copyShown = IF try.succeeded THEN TRUE ELSE @,
               !.regenerateShown = IF try.succeeded /\ page.script = 2 THEN TRUE ELSE @,
               !.links = IF try.succeeded THEN data.searchQueries ELSE @,
               !.linksShown = IF try.succeeded THEN data.searchQueries # << >> ELSE @,
               !.lastSubmission = IF try.succeeded /\ page.script = 2
                                  THEN [topic |-> request.topic, tone |-> request.tone]
                                  ELSE @,
               !.history = history,
               !.storage = IF added THEN saveHistory(@, history) ELSE @,
               !.items = IF added THEN renderHistory(page.script, history, page.searchTerm)
                         ELSE @,
               !.log = IF try.succeeded /\ ~request.regen THEN Append(@, historyEntry) ELSE @,
               !.loading = FALSE,
               !.disabled = FALSE,
               !.inflight = SubSeq(@, 1, i - 1) \o SubSeq(@, i + 1, Len(@)),
               !.last = Last("complete", FALSE, request, response)]
        /\ UNCHANGED << clock, store, hist, req, call, mix >>

\* A click on the k-th item listed in the sidebar.
SelectHistory ==
    \E k \in 1..Len(page.items) :
        LET entry == page.items[k]
        IN  /\ page' = [page EXCEPT
                   !.promptText = PromptPrefix \o entry.topic,
                   !.output = entry.responseText,
                   !.resultShown = TRUE,
                   !.copyShown = TRUE,
                   !.regenerateShown = IF page.script = 2 THEN TRUE ELSE @,
                   !.links = entry.searchQueries,
                   !.linksShown = entry.searchQueries # << >>,
                   !.topicValue = entry.topic,
                   !.toneValue = entry.tone,
                   !.last = Last("other", FALSE, NoRequest, Rejected)]
            /\ UNCHANGED << clock, store, hist, req, call, mix >>

\* A click on the clear-history button.
ClearHistory ==
    /\ page' = [page EXCEPT
           !.history = << >>,
           !.storage = saveHistory(@, << >>),
           !.items = renderHistory(page.script, << >>, page.searchTerm),
           !.log = << >>,
           !.last = Last("clear", FALSE, NoRequest, Rejected)]
    /\ UNCHANGED << clock, store, hist, req, call, mix >>

\* The user types in the search box of the sidebar (copies 1 and 2).
Search(term) ==
    /\ page.script # 3
    /\ term # page.searchTerm
    /\ page' = [page EXCEPT
           !.searchTerm = term,
           !.items = renderHistory(page.script, page.history, term),
           !.last = Last("other", FALSE, NoRequest, Rejected)]
    /\ UNCHANGED << clock, store, hist, req, call, mix >>

\* A click on the theme button.
ToggleTheme ==
    LET newTheme == IF page.theme = Str(<< "d", "a", "r", "k" >>)
                    THEN Str(<< "l", "i", "g", "h", "t" >>)
                    ELSE Str(<< "d", "a", "r", "k" >>)
    IN  /\ page' = [page EXCEPT
               !.theme = newTheme,
               !.storage = [@ EXCEPT !.theme = newTheme],
               !.last = Last("other", FALSE, NoRequest, Rejected)]
        /\ UNCHANGED << clock, store, hist, req, call, mix >>

\* The page is loaded again: the script starts over on what localStorage
\* holds; the requests in flight are abandoned.
Reload ==
    /\ page.last.event # "load"
    /\ page' = LoadedPage(page.script, page.storage)
    /\ UNCHANGED << clock, store, hist, req, call, mix >>

\* A page running one of the given copies is loaded on one of the given
\* states of localStorage; the server is not looked at.
ClientInit(scripts, storages) ==
    /\ ServerInit
    /\ call = NoCall
    /\ mix = NoMix
    /\ page \in {LoadedPage(script, storage) : script \in scripts, storage \in storages}

\* ClientSpec: the copy with handleGeneration and the regenerate button.  The
\* user edits, submits, regenerates, selects, searches and clears; a request
\* succeeds, is refused by the limiter or fails at the transport level.
ClientNext ==
    \/ \E form \in {f \in Forms : ~Blank(f[1])} : EditForm(form)
    \/ Submit
    \/ Regenerate
    \/ \E i \in 1..MaxInFlight, now \in Timestamps :
         \E response \in {r \in Responses : r.json /\ r.reply.status \in {200, 429}}
                             \cup {Rejected} :
            Complete(i, response, now)
    \/ SelectHistory
    \/ ClearHistory
    \/ \E term \in SearchTerms : Search(term)

ClientSpec == ClientInit({2}, Storages) /\ [][ClientNext]_vars

\* StorageSpec: every copy and every event of the page, its reload included,
\* on one topic; a request succeeds or fails at the transport level.
StorageNext ==
    \/ \E form \in {f \in Forms : f[1] = << "a" >>} : EditForm(form)
    \/ Submit
    \/ Regenerate
    \/ \E i \in 1..MaxInFlight, now \in Timestamps :
         \E response \in {r \in Responses : r.json /\ r.reply.status = 200} \cup {Rejected} :
            Complete(i, response, now)
    \/ SelectHistory
    \/ ClearHistory
    \/ \E term \in SearchTerms : Search(term)
    \/ ToggleTheme
    \/ Reload

StorageSpec == ClientInit(Scripts, Storages) /\ [][StorageNext]_vars

\* FailureSpec: every copy, every way a generation can be refused at the
\* guard and every way a request can end.
FailureNext ==
    \/ \E form \in Forms : EditForm(form)
    \/ Submit
    \/ Regenerate
    \/ \E i \in 1..MaxInFlight, now \in Timestamps, response \in Responses :
         Complete(i, response, now)
    \/ SelectHistory

FailureSpec == ClientInit(Scripts, Storages) /\ [][FailureNext]_vars

(***************************************************************************)
(* Properties.                                                             *)
(***************************************************************************)
\* the limiter has decided on the request r
Decided(r) == r.nth > 0 /\ r.pc \in {"upstream", "done"}

\* the request r was answered 429 with the limiter's payload
RateLimited(r) ==
    /\ r.pc = "done"
    /\ r.out.reply.status = 429
    /\ r.out.reply.payload = "error"
    /\ r.out.reply.error = TooManyRequestsMessage

\* C1: of the requests of one client, those that are the 1st to 15th of a
\* five-minute window are admitted and those from the 16th on are answered
\* 429 with the limiter's error payload; the first request after the window
\* has elapsed is the 1st of a new window and is admitted.
C1_WindowLimit ==
    \A s \in Slots : Decided(req[s]) => (RateLimited(req[s]) <=> req[s].nth > 15)

\* C1 witness: after a window that held a 16th request has elapsed, the first
\* request of the new window has been admitted.
C1_Witness ==
    \E s \in Slots :
        /\ Decided(req[s])
        /\ req[s].nth = 1
        /\ hist[req[s].client].before
        /\ ~RateLimited(req[s])

\* C2: under every interleaving, at most 15 requests of a client pass the
\* limiter within one window, and a request beyond the 15th never invokes the
\* upstream model and is never held back for later admission: once decided it
\* is answered 429.
C2_AtMostMaxPass ==
    /\ \A c \in Clients : hist[c].passed <= 15
    /\ \A s \in Slots :
         req[s].nth > 15 =>
            /\ req[s].pc \in {"limiter", "done"}
            /\ ~req[s].out.upstreamCalled
            /\ req[s].pc = "done" => RateLimited(req[s])

\* C2 witness: the 16th request of a client has been refused while the 15th,
\* which arrived before it, is still awaiting the limiter's decision.
C2_Witness ==
    \E s, t \in Slots :
        /\ req[s].client = req[t].client
        /\ req[s].nth = 16 /\ RateLimited(req[s])
        /\ req[t].nth = 15 /\ req[t].pc = "limiter"

(***************************************************************************)
(* The lines of a text, told by the positions of its line breaks.          *)
(***************************************************************************)
\* the positions at which a line of t starts
LineStarts(t) == {i \in 1..(Len(t) + 1) : i = 1 \/ t[i - 1] = "\n"}

\* the position after the last character of the line starting at i
LineEnd(t, i) == SetMin({j \in i..(Len(t) + 1) : j = Len(t) + 1 \/ t[j] = "\n"})

\* the starts of the lines that begin with the marker
MarkerStarts(t) ==
    {i \in LineStarts(t) :
        /\ i + Len(Marker) - 1 <= Len(t)
        /\ \A k \in 1..Len(Marker) : t[i + k - 1] = Marker[k]}

\* the n-th smallest element of the set S of numbers
Nth(S, n) == CHOOSE x \in S : Cardinality({y \in S : y <= x}) = n

\* the lines of t that do not begin with the marker, in their order
BodyLines(t) ==
    LET starts == LineStarts(t) \ MarkerStarts(t)
    IN  [n \in 1..Cardinality(starts) |->
            SubSeq(t, Nth(starts, n), LineEnd(t, Nth(starts, n)) - 1)]

\* u is s without the whitespace around it
IsTrimOf(u, s) ==
    \E i \in 1..(Len(s) + 1) :
        \E j \in (i - 1)..Len(s) :
            /\ u = SubSeq(s, i, j)
            /\ \A k \in 1..(i - 1) : s[k] \in Whitespace
            /\ \A k \in (j + 1)..Len(s) : s[k] \in Whitespace
            /\ u # << >> => (u[1] \notin Whitespace /\ u[Len(u)] \notin Whitespace)

\* the lines joined with line breaks
RECURSIVE Glue(_)
Glue(lines) ==
    IF Len(lines) = 0 THEN << >>
    ELSE IF Len(lines) = 1 THEN lines[1]
    ELSE Glue(SubSeq(lines, 1, Len(lines) - 1)) \o << "\n" >> \o lines[Len(lines)]

\* the call of /generate-post has been answered 200
PostSucceeded ==
    /\ call.done
    /\ call.endpoint = "/generate-post"
    /\ call.out.reply.status = 200

\* C3: the 200 result of /generate-post has one search query per line of the
\* upstream text that begins with the marker (however many there are), in the
\* order of those lines, each the rest of its line without the whitespace
\* around it; responseText is the other lines, in their order, joined with
\* line breaks, without the whitespace around the whole.
C3_ResponseSplit ==
    PostSucceeded =>
        LET t == call.up.text
            reply == call.out.reply
            starts == MarkerStarts(t)
        IN  /\ reply.payload = "post"
            /\ Len(reply.searchQueries) = Cardinality(starts)
            /\ \A n \in 1..Cardinality(starts) :
                 IsTrimOf(reply.searchQueries[n],
                          SubSeq(t, Nth(starts, n) + Len(Marker),
                                 LineEnd(t, Nth(starts, n)) - 1))
            /\ IsTrimOf(reply.responseText, Glue(BodyLines(t)))

\* C3 witness: a 200 result with two search queries (not three) and a
\* response text.
C3_Witness ==
    /\ PostSucceeded
    /\ Len(call.out.reply.searchQueries) = 2
    /\ call.out.reply.responseText # << >>

\* the upstream call returned, and the response is absent, has no text or
\* has an empty text
EmptyUpstream(up) ==
    /\ up.kind = "resolves"
    /\ \/ ~up.response
       \/ ~up.hasText
       \/ ~up.textThrows /\ up.text = << >>

\* C4: when the upstream call returns an absent response or an empty text,
\* /generate-post ends in an error response, never in a 200 result.
C4_EmptyIsFailure ==
    (/\ call.done
     /\ call.endpoint = "/generate-post"
     /\ call.out.upstreamCalled
     /\ EmptyUpstream(call.up))
        => call.out.reply.status >= 400

\* the call of /generate-post failed the validation of the response
ValidationFailed ==
    /\ call.done
    /\ call.endpoint = "/generate-post"
    /\ call.out.upstreamCalled
    /\ call.up.kind = "resolves"
    /\ ~call.up.response \/ ~call.up.hasText

SafetyFilters == << "s", "a", "f", "e", "t", "y", " ", "f", "i", "l", "t", "e", "r", "s" >>

EmptyOrInvalid ==
    << "e", "m", "p", "t", "y", " ", "o", "r", " ", "i", "n", "v", "a", "l", "i", "d" >>

\* C5: when the validation of the response fails, the error detail written
\* for the request names the safety filters and the block reason if the
\* response carries a block reason, and says "empty or invalid" if it does
\* not; neither detail can be taken for the other.
C5_CauseDistinguished ==
    ValidationFailed =>
        LET detail == call.out.logged
            blocked == call.up.response /\ call.up.blockReason.type = "string"
        IN  /\ blocked =>
                /\ Includes(detail, SafetyFilters)
                /\ Includes(detail, call.up.blockReason.str)
                /\ ~Includes(detail, EmptyOrInvalid)
            /\ ~blocked =>
                /\ Includes(detail, EmptyOrInvalid)
                /\ ~Includes(detail, SafetyFilters)

\* C5 witness: a response without text that carries a block reason, and the
\* detail written names the safety filters.
C5_Witness ==
    /\ ValidationFailed
    /\ call.up.blockReason.type = "string"
    /\ Includes(call.out.logged, SafetyFilters)

\* an error was raised while generating
ErrorRaised ==
    /\ call.done
    /\ call.endpoint = "/generate-post"
    /\ call.out.upstreamCalled
    /\ Throws(call.up)

QuotaExceeded(reply) ==
    reply.status = 429 /\ reply.payload = "error" /\ reply.error = QuotaMessage

GenericFailure(reply) ==
    reply.status = 500 /\ reply.payload = "error" /\ reply.error = GenericMessage

\* C6: an error whose message contains '429' or 'quota' is answered 429 with
\* the quota message, every other error 500 with the generic message, and an
\* error that is not an exhaustion of the provider's quota is never answered
\* as quota exceeded.
C6_QuotaMapping ==
    ErrorRaised =>
        LET message == ThrownMessage(call.up)
            reply == call.out.reply
        IN  /\ (Includes(message, Code429) \/ Includes(message, QuotaWord))
                => QuotaExceeded(reply)
            /\ ~(Includes(message, Code429) \/ Includes(message, QuotaWord))
                => GenericFailure(reply)
            /\ ~call.up.quota => ~QuotaExceeded(reply)

\* C7: whatever the error raised while generating, the reply is one of two
\* fixed replies, the one of its class (quota or not), and so carries nothing
\* of the error's own message.
C7_FixedReplies ==
    ErrorRaised =>
        /\ QuotaExceeded(call.out.reply) \/ GenericFailure(call.out.reply)
        /\ ~call.out.escaped
        /\ QuotaExceeded(call.out.reply)
             <=> (Includes(ThrownMessage(call.up), Code429)
                    \/ Includes(ThrownMessage(call.up), QuotaWord))

\* C7 witness: an error with a message of its own, not of the quota class,
\* answered with the generic reply.
C7_Witness ==
    /\ ErrorRaised
    /\ call.up.kind = "rejects"
    /\ call.up.message = << "x", "t", "a" >>
    /\ GenericFailure(call.out.reply)

\* the length of s without the whitespace around it
CoreLength(s) ==
    LET inked == {i \in 1..Len(s) : s[i] \notin Whitespace}
    IN  IF inked = {} THEN 0
        ELSE (CHOOSE x \in inked : \A y \in inked : y <= x) - SetMin(inked) + 1

SuggestionsCalled ==
    /\ call.done
    /\ call.endpoint = "/generate-suggestions"

\* C8: a /generate-suggestions request whose query is absent or has fewer
\* than 3 characters once trimmed is answered 200 with an empty list and makes
\* no upstream call; an upstream call is made only for a query of trimmed
\* length 3 or more.
C8_SuggestionGuard ==
    SuggestionsCalled =>
        LET query == call.body.query
            short == \/ query.type = "undefined"
                     \/ query.type = "string" /\ CoreLength(query.str) < 3
        IN  /\ short =>
                /\ call.out.reply = SuggestionsReply(<< >>)
                /\ ~call.out.upstreamCalled
            /\ call.out.upstreamCalled =>
                /\ query.type = "string"
                /\ CoreLength(query.str) >= 3

\* C8 witness: a query of four characters, one of them not whitespace, was
\* answered an empty list without an upstream call.
C8_Witness ==
    /\ SuggestionsCalled
    /\ call.body.query.type = "string"
    /\ Len(call.body.query.str) = 4
    /\ CoreLength(call.body.query.str) = 1
    /\ call.out.reply = SuggestionsReply(<< >>)
    /\ ~call.out.upstreamCalled

\* the request r, with the given endpoint, has run to its end
Ended(r, endpoint) == r.pc = "done" /\ r.endpoint = endpoint

\* the upstream call failed: a rejection, no response, no text member, or a
\* text() that throws
UpstreamFailed(up) ==
    \/ up.kind = "rejects"
    \/ ~up.response
    \/ ~up.hasText
    \/ up.textThrows

\* C9: every call of the /generate-suggestions handler, whatever the request
\* body and whatever the upstream does, is answered 200 { suggestions }, with
\* an empty list where the upstream call was made and failed; none ends in an
\* error.
C9_NeverErrors ==
    (call.done /\ call.endpoint = "/generate-suggestions") =>
        /\ call.out.reply.status = 200
        /\ call.out.reply.payload = "suggestions"
        /\ ~call.out.escaped
        /\ (call.out.upstreamCalled /\ UpstreamFailed(call.up)) =>
             call.out.reply.suggestions = << >>

\* the topic of the request r is missing or empty
NoTopic(r) ==
    \/ r.body.topic.type = "undefined"
    \/ r.body.topic.type = "string" /\ r.body.topic.str = << >>

\* neither the prompt builder nor the upstream model runs for a request
\* without a topic, and every /generate-post request that reached the upstream
\* model carries a topic that is neither missing nor the empty string
TopicGuarded ==
    \A s \in Slots :
        req[s].endpoint = "/generate-post" =>
            /\ NoTopic(req[s]) => (~req[s].out.prompt.built /\ ~req[s].out.upstreamCalled)
            /\ req[s].out.upstreamCalled =>
                 /\ req[s].body.topic.type # "undefined"
                 /\ req[s].body.topic.type = "string" => Len(req[s].body.topic.str) > 0
                 /\ req[s].out.prompt.built
                 /\ req[s].out.prompt.topic = req[s].body.topic

\* C10, as claimed: a /generate-post request with a missing or empty topic
\* is answered 400 { error } without the prompt builder or the upstream model
\* being invoked, and every request that reaches the upstream model has a
\* non-empty topic.
C10_MissingTopicIs400 ==
    /\ TopicGuarded
    /\ \A s \in Slots :
         (Ended(req[s], "/generate-post") /\ NoTopic(req[s])) =>
            /\ req[s].out.reply.status = 400
            /\ req[s].out.reply.payload = "error"

\* C10, amended: a /generate-post request with a missing or empty topic that
\* passes cors and the limiter is answered 400 { error }; whether or not it
\* passes them, neither the prompt builder nor the upstream model is invoked
\* for it, and every request that reaches the upstream model has a non-empty
\* topic.
C10_AdmittedMissingTopicIs400 ==
    /\ TopicGuarded
    /\ \A s \in Slots :
         (/\ Ended(req[s], "/generate-post")
          /\ NoTopic(req[s])
          /\ req[s].origin = NoOrigin \/ req[s].origin \in allowedOrigins
          /\ req[s].nth <= 15) =>
            /\ req[s].out.reply.status = 400
            /\ req[s].out.reply.payload = "error"
            /\ req[s].out.reply.error = TopicRequiredMessage

\* C10 witness: an admitted request with an empty topic has been answered 400.
C10_Witness ==
    \E s \in Slots :
        /\ Ended(req[s], "/generate-post")
        /\ req[s].body.topic = Str(<< >>)
        /\ req[s].nth \in 1..15
        /\ req[s].out.reply.status = 400

(***************************************************************************)
(* cors.                                                                   *)
(***************************************************************************)
\* the limiter or a route handler has run for the request r
Processed(r) ==
    /\ r.pc \in {"limiter", "upstream", "done"}
    /\ \/ r.totalHits > 0
       \/ r.out.upstreamCalled
       \/ r.out.prompt.built
       \/ r.pc = "done" /\ r.out # CorsRejects

\* the request r was refused by cors: answered by the framework's error
\* handler, not counted by the limiter, no handler run
RefusedByCors(r) ==
    /\ r.pc = "done"
    /\ r.out = CorsRejects
    /\ r.out.reply.status = 500
    /\ r.totalHits = 0
    /\ r.nth = 0

\* C16, as claimed: a request is processed only if its origin is in the
\* allow-list, and every request whose origin is not one of the allow-listed
\* origins is rejected before the limiter and the route handlers run.
C16_OnlyAllowListedOrigins ==
    \A s \in Slots :
        /\ Processed(req[s]) => req[s].origin \in allowedOrigins
        /\ (req[s].pc # "idle" /\ req[s].origin \notin allowedOrigins) =>
               RefusedByCors(req[s])

\* C16, amended: a request that carries an Origin header is processed only if
\* that origin is in the allow-list, and every request whose Origin header is
\* present and not allow-listed is rejected before the limiter and the route
\* handlers run; a request without an Origin header is processed.
C16_ForeignOriginsRefused ==
    \A s \in Slots :
        /\ Processed(req[s]) =>
               (req[s].origin = NoOrigin \/ req[s].origin \in allowedOrigins)
        /\ (req[s].pc # "idle" /\ req[s].origin # NoOrigin
                /\ req[s].origin \notin allowedOrigins) => RefusedByCors(req[s])
        /\ (req[s].pc # "idle" /\ req[s].origin = NoOrigin) =>
               (Processed(req[s]) /\ ~RefusedByCors(req[s]))

\* C16 witness: a request of a foreign origin has been refused, and the
\* limiter has counted nothing for its client.
C16_Witness ==
    \E s \in Slots :
        /\ req[s].origin = "https://evil.example"
        /\ RefusedByCors(req[s])
        /\ store[req[s].client] = NoWindow

(***************************************************************************)
(* One budget for both endpoints.                                          *)
(***************************************************************************)
\* the requests of client c that have arrived in its window, of all kinds
ArrivedInWindow(c) ==
    mix[c]["post"] + mix[c]["post400"] + mix[c]["suggestions"] + mix[c]["short"]

\* C18: the requests of a client to both endpoints draw on one budget, and a
\* request draws on it whether or not its handler would accept it: a request
\* to either endpoint is answered 429 by the limiter exactly if more than 15
\* requests of its client, of every kind together (to /generate-post with and
\* without a topic, to /generate-suggestions with a long enough and with a too
\* short query), have arrived in the window, itself included; one that is not
\* is answered by its handler, 400 and the empty list included.
C18_SharedBudget ==
    Decided(req[1]) =>
        LET r == req[1]
        IN  /\ RateLimited(r) <=> ArrivedInWindow(r.client) > 15
            /\ (r.pc = "done" /\ ~RateLimited(r)) =>
                 CASE KindOf(r.endpoint, r.body) = "post400" -> r.out.reply.status = 400
                   [] KindOf(r.endpoint, r.body) = "short" ->
                        r.out.reply = SuggestionsReply(<< >>)
                   [] OTHER -> r.out.reply.status = 200

\* C18 witness: a /generate-suggestions request with a too short query is
\* answered 429 after 15 requests of which some went to /generate-post without
\* a topic, some to /generate-suggestions with a too short query and only one
\* reached the upstream from /generate-post.
C18_Witness ==
    /\ req[1].endpoint = "/generate-suggestions"
    /\ KindOf(req[1].endpoint, req[1].body) = "short"
    /\ RateLimited(req[1])
    /\ mix[req[1].client]["post"] = 1
    /\ mix[req[1].client]["post400"] >= 7
    /\ mix[req[1].client]["short"] >= 7

(***************************************************************************)
(* Properties of the page.                                                 *)
(***************************************************************************)
\* C11: at most one /generate-post request issued by the page is outstanding
\* at any time, whatever the user does (submit, Enter, regenerate, a click on
\* a history item, clear): while a request is in flight no submission and no
\* regeneration starts another.
C11_SingleInFlight == Len(page.inflight) <= 1

\* C12, on finite runs: the page is idle, with the trigger enabled and the
\* loading mark removed, whenever no request is in flight (every completion,
\* successful or failed, restores it), and the trigger is enabled only when no
\* request is in flight.
C12_EnabledExactlyWhenIdle ==
    /\ page.inflight = << >> => ~page.disabled /\ ~page.loading
    /\ ~page.disabled => page.inflight = << >>

\* the topic and the tone of a request
Submitted(request) == [topic |-> request.topic, tone |-> request.tone]

\* the step completes a request with a result
Succeeds(p) ==
    /\ p.last.event = "complete"
    /\ TryFetch(p.script, p.last.response).succeeded

\* C13: a successful original submission becomes the last submission; a
\* regeneration that is not stopped at the guard sends a request with the topic
\* and tone of the last submission, whatever the form holds, and neither
\* sending it nor its completion, successful or failed, changes the history
\* list, the items listed or the persisted history.
C13_Regeneration ==
    [][/\ (Succeeds(page') /\ ~page'.last.request.regen) =>
            page'.lastSubmission = Submitted(page'.last.request)
       /\ (page'.last.event = "regenerate" /\ ~page'.last.blocked) =>
            /\ Submitted(page'.last.request) = page.lastSubmission
            /\ page'.inflight = Append(page.inflight, page'.last.request)
            /\ page'.last.request.regen
            /\ page'.history = page.history
       /\ (page'.last.event = "complete" /\ page'.last.request.regen) =>
            /\ page'.history = page.history
            /\ page'.items = page.items
            /\ page'.storage = page.storage
            /\ page'.log = page.log]_vars

\* C13 witness: a regeneration of the submission "a" has succeeded while the
\* form held another topic and tone, and the history holds the one entry of
\* the original submission.
C13_Witness ==
    /\ Succeeds(page)
    /\ page.last.request.regen
    /\ page.last.request.topic = << "a" >>
    /\ page.topicValue = << "B" >>
    /\ page.toneValue # page.last.request.tone
    /\ Len(page.history) = 1
    /\ page.history[1].topic = << "a" >>

\* a sequence, last element first
Reversed(s) == [n \in 1..Len(s) |-> s[Len(s) + 1 - n]]

\* C14: a successful original submission adds exactly one entry, its own, at
\* the head of the history list and leaves the entries already there in their
\* order; clear empties the list; no other step (a failed submission, a
\* regeneration, a selection, a search, an edit) changes the list; so the list
\* always holds the entries of the successful original submissions since the
\* last clear, newest first.
C14_HistoryOrdering ==
    [][/\ page.history = Reversed(page.log)
       /\ page'.history = Reversed(page'.log)
       /\ IF Succeeds(page') /\ ~page'.last.request.regen
          THEN /\ Len(page'.history) = Len(page.history) + 1
               /\ Submitted(page'.history[1]) = Submitted(page'.last.request)
               /\ page'.history[1].responseText = page'.last.response.reply.responseText
               /\ SubSeq(page'.history, 2, Len(page'.history)) = page.history
          ELSE IF page'.last.event = "clear"
          THEN page'.history = << >>
          ELSE page'.history = page.history]_vars

\* C14 witness: the second successful original submission has put its entry
\* before the entry of an earlier submission of another topic.
C14_Witness ==
    /\ Succeeds(page)
    /\ ~page.last.request.regen
    /\ Len(page.history) = 2
    /\ page.history[1].topic = page.last.request.topic
    /\ page.history[2].topic # page.history[1].topic
    /\ page.log[1] = page.history[2]

\* the step completes a request whose fetch failed at the transport level, or
\* was answered with a status that is not OK, or with a body that is not JSON
FailedGeneration(p) ==
    /\ p.last.event = "complete"
    /\ \/ p.last.response.settled = "rejected"
       \/ p.last.response.reply.status \notin 200..299
       \/ ~p.last.response.json

\* C15: every failed generation, whichever way it fails and whichever copy of
\* the script runs, ends inside its handler (the request is no longer in
\* flight and the trigger is restored) with the result area visible and
\* showing "Failed to generate response. Error: " followed by a message, and
\* leaves the history list, the items listed, localStorage and the stored last
\* submission unchanged.
C15_FailureHandling ==
    [][FailedGeneration(page') =>
         LET Readable ==
                 << "F", "a", "i", "l", "e", "d", " ", "t", "o", " ", "g", "e", "n", "e", "r",
                    "a", "t", "e", " ", "r", "e", "s", "p", "o", "n", "s", "e", ".", " ", "E",
                    "r", "r", "o", "r", ":", " " >>
         IN  /\ Len(page'.inflight) = Len(page.inflight) - 1
             /\ ~page'.disabled /\ ~page'.loading
             /\ page'.resultShown
             /\ Len(page'.output) > Len(Readable)
             /\ SubSeq(page'.output, 1, Len(Readable)) = Readable
             /\ page'.history = page.history
             /\ page'.items = page.items
             /\ page'.storage = page.storage
             /\ page'.lastSubmission = page.lastSubmission]_vars

\* C15 witness: in copy 2 a regeneration was answered with status 500 and an
\* HTML page; the failure is displayed, and the history and the last
\* submission of the earlier success are still there.
C15_Witness ==
    /\ FailedGeneration(page)
    /\ page.script = 2
    /\ page.last.request.regen
    /\ page.last.response = Fulfilled(DefaultErrorReply)
    /\ page.resultShown
    /\ Includes(page.output, << "5", "0", "0" >>)
    /\ Len(page.history) >= 1
    /\ page.lastSubmission = Submitted(page.last.request)

\* empty, or white space only
WhiteSpaceOnly(topic) == \A k \in 1..Len(topic) : topic[k] \in {" ", "\n", "\t"}

\* C17: a submit whose form topic, or a regenerate whose last-submission
\* topic, is empty or white space only stops at the guard: no request is
\* issued and nothing of the page changes (the trigger, the loading mark, the
\* displayed result and prompt, the search links, the history and its
\* persisted copy, the last submission, the form).
C17_BlankTopicRejected ==
    [][(\/ page'.last.event = "submit" /\ WhiteSpaceOnly(page.topicValue)
        \/ page'.last.event = "regenerate" /\ WhiteSpaceOnly(page.lastSubmission.topic)) =>
          /\ page'.last.blocked
          /\ page'.inflight = page.inflight
          /\ page'.disabled = page.disabled
          /\ [page' EXCEPT !.last = page.last] = page]_vars

\* C17 witness: with a result displayed and an entry in the history, a submit
\* of the topic " " has been stopped at the guard with the page idle.
C17_Witness ==
    /\ page.last.event = "submit"
    /\ page.last.blocked
    /\ page.topicValue = << " " >>
    /\ page.resultShown /\ page.linksShown
    /\ Len(page.history) >= 1
    /\ page.inflight = << >>
    /\ ~page.disabled

\* what loadHistory makes of the value stored under 'ai-assistant-history'
Restored(storage) == LoadedPage(0, storage).history

\* C19: after every add-to-history (a successful original submission) and
\* every clear the value stored under 'ai-assistant-history' is
\* JSON.stringify of the history list in memory and parses back to that
\* list, entry by entry in the same order; no other event of the page (a
\* failed or regenerated request, an edit, a selection, a search, a theme
\* toggle, a reload) changes the value or the list: a reload of the page,
\* which reads the list from the value, restores the list that was in memory.
C19_PersistedHistory ==
    [][IF \/ Succeeds(page') /\ ~page'.last.request.regen
          \/ page'.last.event = "clear"
       THEN /\ page'.storage.history = Str(Stringify(page'.history))
            /\ Restored(page'.storage) = page'.history
       ELSE /\ page'.storage.history = page.storage.history
            /\ page'.history = page.history]_vars

\* C19 witness: the page has been reloaded and holds again the two entries,
\* the newer one first, that were in memory and in localStorage before.
C19_Witness ==
    /\ page.last.event = "load"
    /\ Len(page.history) = 2
    /\ page.history[1].topic = << "a" >>
    /\ page.history[1].responseText = << "a", "\"", "\n", "\\" >>
    /\ page.history[1].searchQueries = << << "q" >> >>
    /\ page.history[2].topic = << "B" >>
    /\ page.storage.history = Str(Stringify(page.history))

\* C20: the stored last submission changes only when a generation succeeds,
\* and then to the topic and tone of that generation; consequently a click on
\* the visible regenerate button sends a request carrying the topic of the
\* result displayed in the result area.
C20_RegeneratesDisplayed ==
    [][/\ page'.lastSubmission # page.lastSubmission =>
            /\ Succeeds(page')
            /\ page'.lastSubmission = Submitted(page'.last.request)
       /\ (page.regenerateShown /\ page'.last.event = "regenerate" /\ ~page'.last.blocked) =>
            page.promptText = PromptPrefix \o page'.last.request.topic]_vars

====
